---- MODULE Spec2Model ----
(***************************************************************************)
(* Model of the mock SQL execution engine of MemStorage                    *)
(* (src/server/storage.ts): executeSqlQuery and its three stages           *)
(* applyWhereConditions, applyOrderBy and applyLimit, run against the four *)
(* in-memory record collections.                                           *)
(*                                                                         *)
(* SQL texts are TLA+ strings read character by character, so the regular  *)
(* expressions of the source are matched as the JavaScript engine matches  *)
(* them.  Field values carry their JavaScript type as a tag.  Dates are    *)
(* whole days since 1970-01-01 (UTC).                                      *)
(***************************************************************************)
EXTENDS Integers, Sequences, FiniteSets, TLC

(***************************************************************************)
(* JavaScript strings                                                      *)
(***************************************************************************)
UpperLetters == "ABCDEFGHIJKLMNOPQRSTUVWXYZ"
LowerLetters == "abcdefghijklmnopqrstuvwxyz"
Digits == "0123456789"

\* s[i] as a one-character string, "" outside the string
CharAt(s, i) == IF i >= 1 /\ i <= Len(s) THEN SubSeq(s, i, i) ELSE ""

CharsOf(s) == {SubSeq(s, i, i) : i \in 1..Len(s)}

\* the characters matched by \w, \d and \s, and those not matched by .
WordChars == CharsOf(UpperLetters) \cup CharsOf(LowerLetters) \cup CharsOf(Digits) \cup {"_"}
DigitChars == CharsOf(Digits)
SpaceChars == {" ", "\t", "\n", "\r", "\f"}
LineTerminators == {"\n", "\r"}
QuoteChars == {"'", "\""}

LowerTable == [c \in CharsOf(UpperLetters) |->
                 LET i == CHOOSE k \in 1..26 : SubSeq(UpperLetters, k, k) = c
                 IN  SubSeq(LowerLetters, i, i)]

LowerChar(c) == IF c \in DOMAIN LowerTable THEN LowerTable[c] ELSE c

UpperChar(c) ==
    IF c \in CharsOf(LowerLetters)
    THEN LET i == CHOOSE k \in 1..26 : SubSeq(LowerLetters, k, k) = c IN SubSeq(UpperLetters, i, i)
    ELSE c

\* String.prototype.toUpperCase
RECURSIVE toUpperCase(_)
toUpperCase(s) ==
    IF Len(s) = 0 THEN ""
    ELSE IF Len(s) = 1 THEN UpperChar(s)
    ELSE LET half == Len(s) \div 2
         IN  toUpperCase(SubSeq(s, 1, half)) \o toUpperCase(SubSeq(s, half + 1, Len(s)))

\* String.prototype.toLowerCase, one half of the string after the other
RECURSIVE toLowerCase(_)
toLowerCase(s) ==
    IF Len(s) = 0 THEN ""
    ELSE IF Len(s) = 1 THEN LowerChar(s)
    ELSE LET half == Len(s) \div 2
         IN  toLowerCase(SubSeq(s, 1, half)) \o toLowerCase(SubSeq(s, half + 1, Len(s)))

\* the first position from i on whose character is not in the class
\* (one past the end when there is none)
SkipClass(s, i, class) ==
    CHOOSE j \in i..(Len(s) + 1) :
        /\ j = Len(s) + 1 \/ SubSeq(s, j, j) \notin class
        /\ \A k \in i..(j - 1) : SubSeq(s, k, k) \in class

\* the last position whose character is no white space (0 when there is none)
LastNonSpace(s) ==
    CHOOSE j \in 0..Len(s) :
        /\ j = 0 \/ SubSeq(s, j, j) \notin SpaceChars
        /\ \A k \in (j + 1)..Len(s) : SubSeq(s, k, k) \in SpaceChars

\* String.prototype.trim
trim(s) == SubSeq(s, SkipClass(s, 1, SpaceChars), LastNonSpace(s))

\* String.prototype.startsWith
startsWith(s, p) == Len(p) <= Len(s) /\ SubSeq(s, 1, Len(p)) = p

\* String.prototype.includes
includes(s, p) == \E i \in 1..(Len(s) - Len(p) + 1) : SubSeq(s, i, i + Len(p) - 1) = p

(***************************************************************************)
(* Regular expressions.  A pattern is a sequence of elements; every        *)
(* pattern of the source is matched with the i flag, so literals are given *)
(* in lower case and compared with the lower-cased text.  In the patterns  *)
(* of the source no quantified class can match the first character of the  *)
(* element that follows it, so a greedy scan takes the only possible       *)
(* length.                                                                 *)
(***************************************************************************)
Lit(l) == [k |-> "lit", s |-> l]              \* literal text
Alt(ls) == [k |-> "alt", s |-> ls]            \* (?:a|b|c), tried in order
Ws0 == [k |-> "ws0", s |-> ""]                \* \s*
Ws1 == [k |-> "ws1", s |-> ""]                \* \s+
Quote == [k |-> "quote", s |-> ""]            \* ['"]
Word1 == [k |-> "word1", s |-> ""]            \* (\w+), captured
Digit1 == [k |-> "digit1", s |-> ""]          \* (\d+), captured

NoCapture == <<0, 0>>
Fail == [ok |-> FALSE, end |-> 0, cap |-> NoCapture]

LitAt(s, i, l) == i + Len(l) - 1 <= Len(s) /\ toLowerCase(SubSeq(s, i, i + Len(l) - 1)) = l

\* the elements pat[n..] matched at position i: [ok, end (first position after
\* the match), cap (first and last position of the capture)]
RECURSIVE MatchFrom(_, _, _, _, _)
MatchFrom(s, i, pat, n, cap) ==
    IF n > Len(pat) THEN [ok |-> TRUE, end |-> i, cap |-> cap]
    ELSE LET e == pat[n] IN
      CASE e.k = "lit" ->
             IF LitAt(s, i, e.s) THEN MatchFrom(s, i + Len(e.s), pat, n + 1, cap) ELSE Fail
        [] e.k = "alt" ->
             LET hits == {a \in 1..Len(e.s) : LitAt(s, i, e.s[a])} IN
             IF hits = {} THEN Fail
             ELSE LET a == CHOOSE h \in hits : \A g \in hits : h <= g
                  IN  MatchFrom(s, i + Len(e.s[a]), pat, n + 1, cap)
        [] e.k = "ws0" -> MatchFrom(s, SkipClass(s, i, SpaceChars), pat, n + 1, cap)
        [] e.k = "ws1" ->
             LET j == SkipClass(s, i, SpaceChars) IN
             IF j > i THEN MatchFrom(s, j, pat, n + 1, cap) ELSE Fail
        [] e.k = "quote" ->
             IF CharAt(s, i) \in QuoteChars THEN MatchFrom(s, i + 1, pat, n + 1, cap) ELSE Fail
        [] e.k = "word1" ->
             LET j == SkipClass(s, i, WordChars) IN
             IF j > i THEN MatchFrom(s, j, pat, n + 1, <<i, j - 1>>) ELSE Fail
        [] e.k = "digit1" ->
             LET j == SkipClass(s, i, DigitChars) IN
             IF j > i THEN MatchFrom(s, j, pat, n + 1, <<i, j - 1>>) ELSE Fail

MatchAt(s, i, pat) == MatchFrom(s, i, pat, 1, NoCapture)

\* String.prototype.match without the g flag: the leftmost match, or null
NoMatch == [found |-> FALSE, at |-> 0, end |-> 0, group |-> ""]

match(s, pat) ==
    LET starts == {i \in 1..Len(s) : MatchAt(s, i, pat).ok} IN
    IF starts = {} THEN NoMatch
    ELSE LET i == CHOOSE a \in starts : \A b \in starts : a <= b
             m == MatchAt(s, i, pat)
         IN  [found |-> TRUE, at |-> i, end |-> m.end,
              group |-> IF m.cap = NoCapture THEN "" ELSE SubSeq(s, m.cap[1], m.cap[2])]

(***************************************************************************)
(* JavaScript values: every field value carries its type                   *)
(***************************************************************************)
Str(s) == [type |-> "string", v |-> s]
Num(n) == [type |-> "number", v |-> n]
DateOf(d) == [type |-> "Date", v |-> d]
null == [type |-> "null", v |-> 0]
undefined == [type |-> "undefined", v |-> 0]

\* the properties every object inherits from Object.prototype; v holds
\* what String(value) gives
ObjectFunction == [type |-> "function", v |-> "function Object() { [native code] }"]
ObjectPrototype == [type |-> "object", v |-> "[object Object]"]

PrototypeNames ==
    {"constructor", "__proto__", "toString", "toLocaleString", "valueOf", "hasOwnProperty",
     "isPrototypeOf", "propertyIsEnumerable", "__defineGetter__", "__defineSetter__",
     "__lookupGetter__", "__lookupSetter__"}

Inherited(f) ==
    CASE f = "constructor" -> ObjectFunction
      [] f = "__proto__" -> ObjectPrototype
      [] f \in PrototypeNames \ {"constructor", "__proto__"} ->
           [type |-> "function", v |-> "function " \o f \o "() { [native code] }"]
      [] OTHER -> undefined

\* row.f : the value of a property, of the object or inherited, undefined
\* when there is none
Get(row, f) == IF f \in DOMAIN row THEN row[f] ELSE Inherited(f)

\* ToBoolean, as used by if (x) and by &&
Truthy(val) ==
    CASE val.type = "null" -> FALSE
      [] val.type = "undefined" -> FALSE
      [] val.type = "number" -> val.v # 0
      [] val.type = "string" -> val.v # ""
      [] OTHER -> TRUE

(***************************************************************************)
(* Dates: day numbers since 1970-01-01 and their calendar fields           *)
(* (ECMAScript MakeDay, YearFromTime, MonthFromTime, DateFromTime)         *)
(***************************************************************************)
\* day number of the given day; month is 1..12, day may exceed the month's length
MakeDay(year, month, day) ==
    LET y == IF month <= 2 THEN year - 1 ELSE year
        era == y \div 400
        yoe == y - era * 400
        mp == IF month > 2 THEN month - 3 ELSE month + 9
        doy == (153 * mp + 2) \div 5 + day - 1
        doe == yoe * 365 + yoe \div 4 - yoe \div 100 + doy
    IN  era * 146097 + doe - 719468

\* [year, month (0..11, as getMonth), date (1..31)] of a day number
Fields(t) ==
    LET z == t + 719468
        era == z \div 146097
        doe == z - era * 146097
        yoe == (doe - doe \div 1460 + doe \div 36524 - doe \div 146096) \div 365
        doy == doe - (365 * yoe + yoe \div 4 - yoe \div 100)
        mp == (5 * doy + 2) \div 153
        d == doy - (153 * mp + 2) \div 5 + 1
        m == IF mp < 10 THEN mp + 3 ELSE mp - 9
    IN  [year |-> yoe + era * 400 + (IF m <= 2 THEN 1 ELSE 0), month |-> m - 1, date |-> d]

getMonth(t) == Fields(t).month

\* Date.prototype.setMonth(month): the month may lie outside 0..11 and the day
\* of the month is kept, so a day the target month does not have runs over
\* into the following month
setMonth(t, month) ==
    LET f == Fields(t)
        ym == f.year + (month \div 12)
        mn == month % 12
    IN  MakeDay(ym, mn + 1, f.date)

(***************************************************************************)
(* The regular expressions of storage.ts                                   *)
(***************************************************************************)
\* /status\s*=\s*['"](\w+)['"]/i and its priority and region twins
EqualityPattern(column) == <<Lit(column), Ws0, Lit("="), Ws0, Quote, Word1, Quote>>

\* /due_date\s*<\s*(?:GETDATE|CURRENT_DATE|NOW)/i and its scheduled_date twin
BeforeNowPattern(column) ==
    <<Lit(column), Ws0, Lit("<"), Ws0, Alt(<<"getdate", "current_date", "now">>)>>

Patterns ==
    [status |-> EqualityPattern("status"),
     priority |-> EqualityPattern("priority"),
     region |-> EqualityPattern("region"),
     dueDate |-> BeforeNowPattern("due_date"),
     scheduledDate |-> BeforeNowPattern("scheduled_date"),
     \* /quantity_on_hand\s*<=\s*reorder_level/i
     lowInventory |-> <<Lit("quantity_on_hand"), Ws0, Lit("<="), Ws0, Lit("reorder_level")>>,
     \* /order_date\s*>=\s*DATEADD\(quarter,\s*-1/i
     quarter |-> <<Lit("order_date"), Ws0, Lit(">="), Ws0, Lit("dateadd(quarter,"), Ws0, Lit("-1")>>,
     \* /status\s*=\s*['"]delayed['"]\s+OR/i
     delayedOr |-> <<Lit("status"), Ws0, Lit("="), Ws0, Quote, Lit("delayed"), Quote, Ws1, Lit("or")>>,
     \* /ORDER BY\s+(\w+)(?:\s+(ASC|DESC))?/i, up to the column
     orderBy |-> <<Lit("order by"), Ws1, Word1>>,
     \* /LIMIT\s+(\d+)/i
     limit |-> <<Lit("limit"), Ws1, Digit1>>,
     \* /SELECT\s+TOP\s+(\d+)/i
     top |-> <<Lit("select"), Ws1, Lit("top"), Ws1, Digit1>>]

\* the optional group (?:\s+(ASC|DESC))? that follows the ORDER BY column
DirectionPattern == <<Ws1, Alt(<<"asc", "desc">>)>>

\* /WHERE\s+(.+?)(?:ORDER BY|LIMIT|TOP|$)/i : the lazy group takes at least one
\* character, none of them a line terminator, and stops at the first position
\* where one of the alternatives matches; $ matches at the end of the text only
WhereEnd(s, e) ==
    e = Len(s) + 1 \/ LitAt(s, e, "order by") \/ LitAt(s, e, "limit") \/ LitAt(s, e, "top")

\* the end of (.+?) when it has taken the characters before e: the first
\* position from e on where it can end, 0 when a line terminator comes first
LazyEnd(s, e) ==
    LET stop == CHOOSE j \in e..(Len(s) + 1) :
                    /\ WhereEnd(s, j) \/ CharAt(s, j) \in LineTerminators
                    /\ \A k \in e..(j - 1) : ~WhereEnd(s, k) /\ CharAt(s, k) \notin LineTerminators
    IN  IF WhereEnd(s, stop) THEN stop ELSE 0

\* the group started at c, then one character earlier when \s+ gives a space back
RECURSIVE WhereGroup(_, _, _)
WhereGroup(s, c, first) ==
    IF c < first THEN NoCapture
    ELSE LET e == IF c > Len(s) \/ CharAt(s, c) \in LineTerminators THEN 0 ELSE LazyEnd(s, c + 1)
         IN  IF e # 0 THEN <<c, e - 1>> ELSE WhereGroup(s, c - 1, first)

WhereAt(s, i) ==
    IF LitAt(s, i, "where")
    THEN LET j == i + 5
             k == SkipClass(s, j, SpaceChars)
         IN  IF k > j THEN WhereGroup(s, k, j + 1) ELSE NoCapture
    ELSE NoCapture

\* sql.match(/WHERE.../i): whereMatch[1], or no match
matchWhere(s) ==
    LET starts == {i \in 1..Len(s) : WhereAt(s, i) # NoCapture} IN
    IF starts = {} THEN NoMatch
    ELSE LET i == CHOOSE a \in starts : \A b \in starts : a <= b
             cap == WhereAt(s, i)
         IN  [found |-> TRUE, at |-> i, end |-> cap[2] + 1, group |-> SubSeq(s, cap[1], cap[2])]

RECURSIVE ParseDigits(_, _, _)
ParseDigits(s, i, acc) ==
    IF i > Len(s) THEN acc
    ELSE LET d == CHOOSE k \in 0..9 : SubSeq(Digits, k + 1, k + 1) = SubSeq(s, i, i)
         IN  ParseDigits(s, i + 1, 10 * acc + d)

\* parseInt of a string of decimal digits
parseInt(s) == ParseDigits(s, 1, 0)

(***************************************************************************)
(* The SQL texts given to executeSqlQuery.  The text comes from a language *)
(* model or from generateFallbackSQL, so any string is possible; these are *)
(* the shapes the schema context asks for, with variations of case,        *)
(* spacing and table, and texts that are no SELECT or name no table.       *)
(***************************************************************************)
TableNames == <<"sales_orders", "work_orders", "invoices", "inventory_items">>

\* the values of the status columns (EBS_SCHEMA_CONTEXT, initSalesOrders,
\* initWorkOrders, initInvoices)
StatusValues ==
    {"pending", "in-progress", "completed", "delayed", "cancelled", "processing", "paid", "overdue"}

SelectFrom(table) == "SELECT * FROM " \o table

StatusSql(table, v) == SelectFrom(table) \o " WHERE status = '" \o v \o "'"

DelayedWhere == "status = 'delayed' OR (status = 'in-progress' AND scheduled_date < GETDATE())"

DelayedSql == SelectFrom("work_orders") \o " WHERE " \o DelayedWhere

DelayedSqlOrdered == DelayedSql \o " ORDER BY scheduled_date ASC LIMIT 20"

LowInventorySql == SelectFrom("inventory_items") \o " WHERE quantity_on_hand <= reorder_level"

LastQuarterSql ==
    SelectFrom("sales_orders") \o " WHERE order_date >= DATEADD(quarter, -1, GETDATE())"

BeforeNowSql(table, column, fn) == SelectFrom(table) \o " WHERE " \o column \o " < " \o fn

StatusSqls == {StatusSql(t, v) : t \in {"sales_orders", "work_orders", "invoices"}, v \in StatusValues}

BeforeNowSqls ==
    {BeforeNowSql("invoices", "due_date", fn) : fn \in {"GETDATE()", "CURRENT_DATE", "NOW()"}}
    \cup {BeforeNowSql("work_orders", "scheduled_date", fn) : fn \in {"GETDATE()", "NOW()"}}
    \cup {"select * from invoices where due_date<getdate()",
          "SELECT * FROM invoices WHERE status = 'pending' AND due_date < GETDATE()",
          "SELECT * FROM work_orders WHERE priority = 'high' AND scheduled_date < GETDATE()"}

NotSelectSqls ==
    {"not a select", "", "DELETE FROM sales_orders", "UPDATE work_orders SET status = 'done'",
     "INSERT INTO invoices SELECT * FROM invoices"}

NoTableSqls ==
    {"SELECT * FROM nonexistent_table", "SELECT 1", "select * from customers where id = 7"}

OtherSqls ==
    {"  select * from invoices  ", "SELECTED FROM work_orders",
     "select * from INVENTORY_ITEMS", "SELECT * FROM salesorders WHERE note = 'invoices'",
     "SELECT * FROM invoices JOIN sales_orders ON 1 = 1",
     "SELECT * FROM inventory_items, work_orders",
     "SELECT * FROM inventory_items, invoices",
     "SELECT * FROM work_orders, sales_orders, invoices",
     "SELECT * FROM sales_orders WHERE STATUS=\"completed\"",
     "SELECT * FROM invoices WHERE status = 'Pending'",
     "SELECT * FROM sales_orders ORDER BY order_date DESC",
     "SELECT * FROM work_orders ORDER BY scheduled_date",
     "SELECT * FROM invoices WHERE status = 'pending' ORDER BY due_date DESC LIMIT 1",
     "SELECT TOP 1 * FROM inventory_items ORDER BY quantity_on_hand ASC",
     LowInventorySql \o " ORDER BY quantity_on_hand ASC LIMIT 20"}

\* several recognized conditions in one WHERE clause
PendingOverdueSql == "SELECT * FROM invoices WHERE status = 'pending' AND due_date < GETDATE()"

PendingNorthSql == "SELECT * FROM sales_orders WHERE status = 'pending' AND region = 'North'"

DelayedHighPastSql ==
    "SELECT * FROM work_orders WHERE status = 'delayed' AND priority = 'high' AND scheduled_date < NOW()"

CompletedSouthHighSql ==
    "SELECT * FROM sales_orders WHERE status = 'completed' AND region = 'South' AND priority = 'high'"

ConjunctionSqls == {PendingOverdueSql, PendingNorthSql, DelayedHighPastSql, CompletedSouthHighSql}

\* conditions on columns the filter knows nothing about
AcmeSql == "SELECT * FROM sales_orders WHERE customer_name = 'Acme Corporation'"

AcmePendingSql == AcmeSql \o " AND status = 'pending'"

LaptopPendingSql ==
    "SELECT * FROM sales_orders WHERE customer_name = 'Laptop World' AND status = 'pending'"

UnrecognizedSqls == {AcmeSql, AcmePendingSql, LaptopPendingSql}

\* ordering on a column that holds nulls, and on a column of decimal strings
CompletionAscSql == "SELECT * FROM work_orders ORDER BY completion_date ASC"

CompletionDescSql == "SELECT * FROM work_orders ORDER BY completion_date DESC"

UnitPriceDescSql == "SELECT * FROM inventory_items ORDER BY unit_price DESC"

\* LIMIT and TOP
LimitTwoSql == "SELECT * FROM work_orders LIMIT 2"

TopOverLimitSql == "SELECT TOP 1 * FROM work_orders LIMIT 2"

OrderLimitSqls ==
    {CompletionAscSql, CompletionDescSql, UnitPriceDescSql, LimitTwoSql, TopOverLimitSql}

\* a LIMIT followed by a word
LimitWordSql == "SELECT * FROM work_orders LIMIT abc"

\* ordering on a name every object inherits
ConstructorSql == "SELECT * FROM work_orders ORDER BY constructor"

\* ordering on a column of words
StatusOrderSql == "SELECT * FROM work_orders ORDER BY status DESC"
ProtoSql == "SELECT * FROM invoices ORDER BY __proto__"

(***************************************************************************)
(* generateFallbackSQL (openai-service.ts)                                 *)
(***************************************************************************)
PendingSalesFallback ==
    "SELECT * FROM sales_orders WHERE status = 'pending' ORDER BY order_date DESC LIMIT 20"

DelayedWorkFallback ==
    "SELECT * FROM work_orders WHERE status = 'delayed' ORDER BY scheduled_date ASC LIMIT 20"

OverdueInvoiceFallback ==
    "SELECT * FROM invoices WHERE status = 'pending' AND due_date < CURRENT_TIMESTAMP ORDER BY due_date ASC LIMIT 20"

LowInventoryFallback ==
    "SELECT * FROM inventory_items WHERE quantity_on_hand <= reorder_level ORDER BY quantity_on_hand ASC LIMIT 20"

SalesFallback == "SELECT * FROM sales_orders ORDER BY order_date DESC LIMIT 20"

WorkFallback == "SELECT * FROM work_orders ORDER BY scheduled_date DESC LIMIT 20"

InvoiceFallback == "SELECT * FROM invoices ORDER BY invoice_date DESC LIMIT 20"

InventoryFallback == "SELECT * FROM inventory_items ORDER BY quantity_on_hand ASC LIMIT 20"

DefaultFallback == "SELECT * FROM sales_orders ORDER BY order_date DESC LIMIT 10"

\* the sql of the result generateFallbackSQL returns for a lower-cased question
fallbackFor(lowerQuestion) ==
    CASE includes(lowerQuestion, "pending") /\ includes(lowerQuestion, "sales") ->
             PendingSalesFallback
      [] includes(lowerQuestion, "delayed") /\ includes(lowerQuestion, "work") ->
             DelayedWorkFallback
      [] includes(lowerQuestion, "overdue") /\ includes(lowerQuestion, "invoice") ->
             OverdueInvoiceFallback
      [] includes(lowerQuestion, "low") /\ includes(lowerQuestion, "inventory") ->
             LowInventoryFallback
      [] includes(lowerQuestion, "sales") -> SalesFallback
      [] includes(lowerQuestion, "work") -> WorkFallback
      [] includes(lowerQuestion, "invoice") -> InvoiceFallback
      [] includes(lowerQuestion, "inventory") -> InventoryFallback
      [] OTHER -> DefaultFallback

generateFallbackSQL(userQuestion) == fallbackFor(toLowerCase(userQuestion))

FallbackSqls ==
    {PendingSalesFallback, DelayedWorkFallback, OverdueInvoiceFallback, LowInventoryFallback,
     SalesFallback, WorkFallback, InvoiceFallback, InventoryFallback, DefaultFallback}

SqlStrings ==
    {SelectFrom(TableNames[t]) : t \in 1..4} \cup StatusSqls \cup BeforeNowSqls
    \cup {DelayedSql, DelayedSqlOrdered, LowInventorySql, LastQuarterSql}
    \cup NotSelectSqls \cup NoTableSqls \cup OtherSqls
    \cup ConjunctionSqls \cup UnrecognizedSqls \cup OrderLimitSqls
    \cup {LimitWordSql, ConstructorSql, StatusOrderSql, ProtoSql} \cup FallbackSqls

(***************************************************************************)
(* What the engine reads from a text depends on the text alone; it is      *)
(* computed once for every text of SqlStrings.                             *)
(***************************************************************************)
\* sql.toLowerCase().trim()
LowerSql == [s \in SqlStrings |-> trim(toLowerCase(s))]

\* sql.match(/WHERE\s+(.+?)(?:ORDER BY|LIMIT|TOP|$)/i)
WhereMatches == [s \in SqlStrings |-> matchWhere(s)]

\* whereMatch[1].trim()
WhereClauses == {trim(WhereMatches[s].group) : s \in SqlStrings}

\* whereClause.match(pattern) for the patterns of the filter callback
ClauseMatches ==
    [whereClause \in WhereClauses |->
        [name \in DOMAIN Patterns |-> match(whereClause, Patterns[name])]]

(***************************************************************************)
(* State                                                                   *)
(***************************************************************************)
VARIABLES
    salesOrders,      \* MemStorage.salesOrders
    workOrders,       \* MemStorage.workOrders
    invoices,         \* MemStorage.invoices
    inventoryItems,   \* MemStorage.inventoryItems
    now,              \* the system clock read by new Date()
    call,             \* the last call of executeSqlQuery: its text and the time it ran
    outcome,          \* what that call returned or threw, until the caller has it
    results,          \* the results a caller has kept: text, time and records
    queries,          \* MemStorage.queries, in the order of creation
    tasks,            \* the calls of processQueryAsync, one for each query
    token,            \* a name given to mapColumnName
    resolved          \* what mapColumnName returned for it, and for what it returned

vars ==
    <<salesOrders, workOrders, invoices, inventoryItems, now, call, outcome, results, queries,
      tasks, token, resolved>>

\* the collection of the store a table name stands for
Collection(table) ==
    CASE table = "sales_orders" -> salesOrders
      [] table = "work_orders" -> workOrders
      [] table = "invoices" -> invoices
      [] table = "inventory_items" -> inventoryItems

(***************************************************************************)
(* Arrays are objects: ref names the collection of the store the array is, *)
(* or "new" for an array no field of the store refers to.                  *)
(***************************************************************************)
NewArray(rows) == [ref |-> "new", rows |-> rows]

StoreArray(table) == [ref |-> table, rows |-> Collection(table)]

\* data = this.salesOrders : the array of the store itself
SpreadCopy_sameArray(table) == StoreArray(table)

\* [...this.salesOrders] : a new array with the same elements
SpreadCopy(table) == NewArray(Collection(table))

(***************************************************************************)
(* applyWhereConditions: the checks of the filter callback, in order.      *)
(* Each tells whether the callback returns false at that check.            *)
(***************************************************************************)
EqualityRejects(row, m, field) ==
    m.found /\ Get(row, field) # Str(m.group)

\* rejects only a date after now: row.dueDate > new Date()
BeforeNowRejects_notAfter(row, m, field) ==
    /\ m.found
    /\ Truthy(Get(row, field))
    /\ Get(row, field).v > now

BeforeNowRejects(row, m, field) ==
    /\ m.found
    /\ Truthy(Get(row, field))
    /\ Get(row, field).v >= now

\* rejects a quantity equal to the reorder level: row.quantityOnHand >= row.reorderLevel
LowInventoryRejects_strict(row, m) ==
    /\ m.found
    /\ Truthy(Get(row, "quantityOnHand")) /\ Truthy(Get(row, "reorderLevel"))
    /\ Get(row, "quantityOnHand").v >= Get(row, "reorderLevel").v

LowInventoryRejects(row, m) ==
    /\ m.found
    /\ Truthy(Get(row, "quantityOnHand")) /\ Truthy(Get(row, "reorderLevel"))
    /\ Get(row, "quantityOnHand").v > Get(row, "reorderLevel").v

\* threeMonthsAgo.setMonth(threeMonthsAgo.getMonth() - 3)
threeMonthsAgo == setMonth(now, getMonth(now) - 3)

QuarterRejects(row, m) ==
    /\ m.found
    /\ Truthy(Get(row, "orderDate"))
    /\ Get(row, "orderDate").v < threeMonthsAgo

DelayedOrRejects(row, m) ==
    /\ m.found
    /\ Get(row, "status") # Str("delayed")
    /\ ~ /\ Get(row, "status") = Str("in-progress")
         /\ Truthy(Get(row, "scheduledDate"))
         /\ Get(row, "scheduledDate").v < now

\* return row.status === statusMatch[1] : a matched status decides alone
RowPasses_statusDecides(row, found) ==
    IF found.status.found THEN ~EqualityRejects(row, found.status, "status")
    ELSE /\ ~EqualityRejects(row, found.priority, "priority")
         /\ ~EqualityRejects(row, found.region, "region")
         /\ ~BeforeNowRejects(row, found.dueDate, "dueDate")
         /\ ~BeforeNowRejects(row, found.scheduledDate, "scheduledDate")
         /\ ~LowInventoryRejects(row, found.lowInventory)
         /\ ~QuarterRejects(row, found.quarter)
         /\ ~DelayedOrRejects(row, found.delayedOr)

\* the callback of data.filter; found holds the matches of the where clause
RowPasses(row, found) ==
    /\ ~EqualityRejects(row, found.status, "status")
    /\ ~EqualityRejects(row, found.priority, "priority")
    /\ ~EqualityRejects(row, found.region, "region")
    /\ ~BeforeNowRejects(row, found.dueDate, "dueDate")
    /\ ~BeforeNowRejects(row, found.scheduledDate, "scheduledDate")
    /\ ~LowInventoryRejects(row, found.lowInventory)
    /\ ~QuarterRejects(row, found.quarter)
    /\ ~DelayedOrRejects(row, found.delayedOr)

\* if (!whereMatch) return [] : nothing is kept when there is no where clause
filter_nothingWithoutWhere(data, whereMatch) ==
    IF ~whereMatch.found THEN NewArray(<<>>)
    ELSE LET Keep(row) == RowPasses(row, ClauseMatches[trim(whereMatch.group)])
         IN  NewArray(SelectSeq(data.rows, Keep))

\* data.filter(row => ...) for the where clause of whereMatch
filter(data, whereMatch) ==
    IF ~whereMatch.found THEN data
    ELSE LET Keep(row) == RowPasses(row, ClauseMatches[trim(whereMatch.group)])
         IN  NewArray(SelectSeq(data.rows, Keep))

applyWhereConditions(data, sql) == filter(data, WhereMatches[sql])

(***************************************************************************)
(* applyOrderBy                                                            *)
(***************************************************************************)
mapping ==
    [order_id |-> "orderId", order_number |-> "orderNumber", customer_name |-> "customerName",
     order_date |-> "orderDate", total_amount |-> "totalAmount", sales_rep |-> "salesRep",
     work_order_id |-> "workOrderId", work_order_number |-> "workOrderNumber",
     assigned_to |-> "assignedTo", scheduled_date |-> "scheduledDate",
     completion_date |-> "completionDate", invoice_id |-> "invoiceId",
     invoice_number |-> "invoiceNumber", vendor_name |-> "vendorName",
     invoice_date |-> "invoiceDate", due_date |-> "dueDate", payment_terms |-> "paymentTerms",
     item_id |-> "itemId", item_code |-> "itemCode", item_name |-> "itemName",
     quantity_on_hand |-> "quantityOnHand", unit_price |-> "unitPrice",
     reorder_level |-> "reorderLevel"]

\* mapping[key]: a property of the literal or one it inherits
Lookup(key) == IF key \in DOMAIN mapping THEN Str(mapping[key]) ELSE Inherited(key)

\* mapping[sqlColumn.toLowerCase()] || sqlColumn
mapColumnName(sqlColumn) ==
    IF Truthy(Lookup(toLowerCase(sqlColumn))) THEN Lookup(toLowerCase(sqlColumn))
    ELSE Str(sqlColumn)

\* a[column]: the column as a property key
PropertyKey(column) == column.v

\* the value of isNaN(x) being true
NaN == [type |-> "NaN", v |-> 0]

isNullish(val) == val.type \in {"null", "undefined"}

\* a string of digits, a point and digits, as toFixed(2) writes an amount
PointAt(s) ==
    IF \E i \in 1..Len(s) : SubSeq(s, i, i) = "."
    THEN CHOOSE i \in 1..Len(s) : SubSeq(s, i, i) = "."
    ELSE 0

IsDecimal(s) ==
    /\ PointAt(s) > 1 /\ PointAt(s) < Len(s)
    /\ \A i \in 1..Len(s) : i # PointAt(s) => SubSeq(s, i, i) \in DigitChars

\* Date.parse(s) of V8, in days.  A string that is no ISO date goes to the
\* legacy parser: the numbers of "n1.n2" are day components; when n1 can be
\* no day of a month they are read as year and month (day 1), otherwise as
\* month and day (year 1); a year below 50 is in 2000, one below 100 in
\* 1900; a month out of 1..12 or a day out of 1..31 gives NaN.  A word
\* holds no number and gives NaN.
DateParse(s) ==
    IF ~IsDecimal(s) THEN NaN
    ELSE LET n1 == parseInt(SubSeq(s, 1, PointAt(s) - 1))
             n2 == parseInt(SubSeq(s, PointAt(s) + 1, Len(s)))
             isYear == n1 \notin 1..31
             year == IF isYear THEN n1 ELSE 1
             month == IF isYear THEN n2 ELSE n1
             day == IF isYear THEN 1 ELSE n2
             fullYear == IF year \in 0..49 THEN year + 2000
                         ELSE IF year \in 50..99 THEN year + 1900 ELSE year
         IN  IF month \in 1..12 /\ day \in 1..31
             THEN Num(MakeDay(fullYear, month, day))
             ELSE NaN

\* parseFloat(x), in hundredths
parseFloat(val) ==
    CASE val.type = "number" -> Num(100 * val.v)
      [] val.type = "string" /\ IsDecimal(val.v) /\ Len(val.v) - PointAt(val.v) = 2 ->
           Num(100 * parseInt(SubSeq(val.v, 1, PointAt(val.v) - 1))
                 + parseInt(SubSeq(val.v, PointAt(val.v) + 1, Len(val.v))))
      [] val.type = "string" /\ ~IsDecimal(val.v) -> NaN
      [] val.type \notin {"number", "string"} -> NaN

\* new Date(x).getTime(), in days
getTime(val) ==
    CASE val.type = "Date" -> Num(val.v)
      [] val.type = "string" -> DateParse(val.v)
      [] OTHER -> NaN

\* aVal instanceof Date || typeof aVal === 'string' && !isNaN(Date.parse(aVal))
isDate(val) ==
    \/ val.type = "Date"
    \/ val.type = "string" /\ DateParse(val.v) # NaN

\* typeof aVal === 'number' || !isNaN(parseFloat(aVal))
isNumber(val) == val.type = "number" \/ parseFloat(val) # NaN

\* the place of a character in the collation order: punctuation, digits,
\* letters without regard to case
CollationOrder == "_-0123456789abcdefghijklmnopqrstuvwxyz"

Rank(c) ==
    IF \E k \in 1..Len(CollationOrder) : SubSeq(CollationOrder, k, k) = LowerChar(c)
    THEN CHOOSE k \in 1..Len(CollationOrder) : SubSeq(CollationOrder, k, k) = LowerChar(c)
    ELSE 0

\* String(x).localeCompare(String(y)): the first place where the strings
\* differ otherwise than by case decides; then the length; then the first
\* place where they differ by case, the small letter first
localeCompare(x, y) ==
    LET common == IF Len(x) < Len(y) THEN Len(x) ELSE Len(y)
        primary == {i \in 1..common : Rank(SubSeq(x, i, i)) # Rank(SubSeq(y, i, i))}
        cases == {i \in 1..common : SubSeq(x, i, i) # SubSeq(y, i, i)}
        first(set) == CHOOSE i \in set : \A j \in set : i <= j
    IN  IF primary # {}
        THEN IF Rank(SubSeq(x, first(primary), first(primary)))
                  < Rank(SubSeq(y, first(primary), first(primary))) THEN -1 ELSE 1
        ELSE IF Len(x) # Len(y) THEN IF Len(x) < Len(y) THEN -1 ELSE 1
        ELSE IF cases = {} THEN 0
        ELSE IF SubSeq(x, first(cases), first(cases)) \in CharsOf(LowerLetters) THEN -1 ELSE 1

\* direction === 'DESC' ? y - x : x - y ; a NaN difference is taken as 0 by
\* Array.prototype.sort
difference(x, y, dir) ==
    IF x = NaN \/ y = NaN THEN 0
    ELSE IF dir = "DESC" THEN y.v - x.v ELSE x.v - y.v

\* a null compares as the direction says: last when ascending, first when
\* descending
compare_nullsFollowDirection(a, b, column, dir) ==
    LET aVal == Get(a, column)
        bVal == Get(b, column)
    IN  CASE isNullish(aVal) -> IF dir = "DESC" THEN -1 ELSE 1
          [] ~isNullish(aVal) /\ isNullish(bVal) -> IF dir = "DESC" THEN 1 ELSE -1
          [] ~isNullish(aVal) /\ ~isNullish(bVal) /\ isDate(aVal) ->
               difference(getTime(aVal), getTime(bVal), dir)
          [] ~isNullish(aVal) /\ ~isNullish(bVal) /\ ~isDate(aVal) /\ isNumber(aVal) ->
               difference(parseFloat(aVal), parseFloat(bVal), dir)
          [] ~isNullish(aVal) /\ ~isNullish(bVal) /\ ~isDate(aVal) /\ ~isNumber(aVal) ->
               IF dir = "DESC" THEN 0 - localeCompare(aVal.v, bVal.v)
               ELSE localeCompare(aVal.v, bVal.v)

\* the comparator given to data.sort, for columns holding dates, numbers or
\* decimal strings
compare(a, b, column, dir) ==
    LET aVal == Get(a, column)
        bVal == Get(b, column)
    IN  CASE isNullish(aVal) -> 1
          [] ~isNullish(aVal) /\ isNullish(bVal) -> -1
          [] ~isNullish(aVal) /\ ~isNullish(bVal) /\ isDate(aVal) ->
               difference(getTime(aVal), getTime(bVal), dir)
          [] ~isNullish(aVal) /\ ~isNullish(bVal) /\ ~isDate(aVal) /\ isNumber(aVal) ->
               difference(parseFloat(aVal), parseFloat(bVal), dir)
          [] ~isNullish(aVal) /\ ~isNullish(bVal) /\ ~isDate(aVal) /\ ~isNumber(aVal) ->
               IF dir = "DESC" THEN 0 - localeCompare(aVal.v, bVal.v)
               ELSE localeCompare(aVal.v, bVal.v)

Reverse(s) == [i \in 1..Len(s) |-> s[Len(s) + 1 - i]]

\* Array.prototype.sort of V8 for an array shorter than 64: the run the array
\* starts with is found (and reversed when it is strictly descending), then
\* the remaining elements are inserted one by one by binary search
RECURSIVE RunLength(_, _, _, _, _)
RunLength(arr, idx, isDescending, column, direction) ==
    IF idx > Len(arr) THEN idx - 1
    ELSE LET order == compare(arr[idx], arr[idx - 1], column, direction) IN
         IF (isDescending /\ order >= 0) \/ (~isDescending /\ order < 0) THEN idx - 1
         ELSE RunLength(arr, idx + 1, isDescending, column, direction)

RECURSIVE InsertionPoint(_, _, _, _, _, _)
InsertionPoint(arr, pivot, left, right, column, direction) ==
    IF left >= right THEN left
    ELSE LET mid == left + ((right - left) \div 2) IN
         IF compare(pivot, arr[mid], column, direction) < 0
         THEN InsertionPoint(arr, pivot, left, mid, column, direction)
         ELSE InsertionPoint(arr, pivot, mid + 1, right, column, direction)

RECURSIVE BinaryInsertionSort(_, _, _, _)
BinaryInsertionSort(arr, start, column, direction) ==
    IF start > Len(arr) THEN arr
    ELSE LET pivot == arr[start]
             at == InsertionPoint(arr, pivot, 1, start, column, direction)
             moved == [i \in 1..Len(arr) |->
                         IF i < at \/ i > start THEN arr[i]
                         ELSE IF i = at THEN pivot ELSE arr[i - 1]]
         IN  BinaryInsertionSort(moved, start + 1, column, direction)

\* the descending run is reversed by copying its right half over its left
\* half, without the swap
sort_halfReversed(arr, column, direction) ==
    IF Len(arr) < 2 THEN arr
    ELSE LET isDescending == compare(arr[2], arr[1], column, direction) < 0
             run == RunLength(arr, 3, isDescending, column, direction)
             made == IF isDescending
                     THEN [i \in 1..Len(arr) |->
                             IF 2 * i <= run THEN arr[run + 1 - i] ELSE arr[i]]
                     ELSE arr
         IN  BinaryInsertionSort(made, run + 1, column, direction)

sort(arr, column, direction) ==
    IF Len(arr) < 2 THEN arr
    ELSE LET isDescending == compare(arr[2], arr[1], column, direction) < 0
             run == RunLength(arr, 3, isDescending, column, direction)
             made == IF isDescending
                     THEN Reverse(SubSeq(arr, 1, run)) \o SubSeq(arr, run + 1, Len(arr))
                     ELSE arr
         IN  BinaryInsertionSort(made, run + 1, column, direction)

\* (orderMatch[2] || 'ASC').toUpperCase(), dir being the match of the
\* optional group (?:\s+(ASC|DESC))
direction(s, dir) ==
    IF dir.ok /\ LitAt(s, dir.end - 4, "desc") THEN "DESC" ELSE "ASC"

\* the column and the direction of sql.match(/ORDER BY\s+(\w+)(?:\s+(ASC|DESC))?/i)
orderBy(s, orderMatch) ==
    [found |-> orderMatch.found,
     column |-> mapColumnName(orderMatch.group),
     direction |-> IF orderMatch.found
                   THEN direction(s, MatchAt(s, orderMatch.end, DirectionPattern))
                   ELSE "ASC"]

OrderByClauses == [s \in SqlStrings |-> orderBy(s, match(s, Patterns.orderBy))]

\* data.sort sorts the array it is given and returns that same array
sortBy(data, orderMatch) ==
    IF ~orderMatch.found THEN data
    ELSE [ref |-> data.ref,
          rows |-> sort(data.rows, PropertyKey(orderMatch.column), orderMatch.direction)]

applyOrderBy(data, sql) == sortBy(data, OrderByClauses[sql])

(***************************************************************************)
(* applyLimit                                                              *)
(***************************************************************************)
\* slice(0, n + 1)
slice_oneMore(rows, n) == SubSeq(rows, 1, IF n + 1 < Len(rows) THEN n + 1 ELSE Len(rows))

\* Array.prototype.slice(0, n)
slice(rows, n) == SubSeq(rows, 1, IF n < Len(rows) THEN n ELSE Len(rows))

\* sql.match(/LIMIT\s+(\d+)/i) and sql.match(/SELECT\s+TOP\s+(\d+)/i)
LimitMatches ==
    [s \in SqlStrings |-> [limit |-> match(s, Patterns.limit), top |-> match(s, Patterns.top)]]

\* the TOP clause is handled before the LIMIT clause
limitBy_topFirst(data, found) ==
    IF found.top.found THEN NewArray(slice(data.rows, parseInt(found.top.group)))
    ELSE IF found.limit.found THEN NewArray(slice(data.rows, parseInt(found.limit.group)))
    ELSE data

limitBy(data, found) ==
    IF found.limit.found THEN NewArray(slice(data.rows, parseInt(found.limit.group)))
    ELSE IF found.top.found THEN NewArray(slice(data.rows, parseInt(found.top.group)))
    ELSE data

applyLimit(data, sql) == limitBy(data, LimitMatches[sql])

(***************************************************************************)
(* The mock data.  The constructor fills the four collections at random;   *)
(* the sets below hold collections it can produce, shortened to a few      *)
(* records and to a few values of the fields the engine reads.             *)
(***************************************************************************)
NumSalesOrders == 2
NumWorkOrders == 3
NumInvoices == 2
NumInventoryItems == 2

\* new Date('2024-01-01')
baseDate == MakeDay(2024, 1, 1)

OrderDates == {MakeDay(2024, 2, 29), MakeDay(2024, 3, 2), MakeDay(2024, 3, 20)}
ScheduledDates == {MakeDay(2024, 3, 1), MakeDay(2024, 6, 20)}
\* invoice date and days to add (30 or 60)
InvoiceTerms == {<<MakeDay(2024, 4, 1), 30>>, <<MakeDay(2024, 4, 1), 60>>, <<MakeDay(2024, 5, 1), 60>>}
QuantityValues == {0, 50, 80}
ReorderValues == {50, 60}

\* the values the system clock takes
NowValues == {MakeDay(2024, 5, 31), MakeDay(2024, 6, 15)}

Cycle(seq, i) == seq[((i - 1) % Len(seq)) + 1]

SalesOrderChoices == {"pending", "completed"} \X OrderDates
WorkOrderChoices == {"delayed", "in-progress", "completed"} \X ScheduledDates
InvoiceChoices == {"pending", "paid"} \X InvoiceTerms
InventoryChoices == QuantityValues \X ReorderValues

SalesOrder(i, c) ==
    [orderId |-> Str("SO-" \o ToString(1000 + i)),
     orderDate |-> DateOf(c[2]),
     totalAmount |-> Str(Cycle(<<"5000.00", "12500.50", "54999.99">>, i)),
     status |-> Str(c[1]),
     region |-> Str(Cycle(<<"North", "South", "East", "West">>, i))]

WorkOrder(i, c) ==
    [workOrderId |-> Str("WO-" \o ToString(2000 + i)),
     status |-> Str(c[1]),
     priority |-> Str(Cycle(<<"high", "low", "urgent", "medium">>, i)),
     scheduledDate |-> DateOf(c[2]),
     completionDate |-> IF c[1] = "completed" THEN DateOf(c[2] + 7 * i) ELSE null]

Invoice(i, c) ==
    [invoiceId |-> Str("INV-" \o ToString(3000 + i)),
     invoiceDate |-> DateOf(c[2][1]),
     dueDate |-> DateOf(c[2][1] + c[2][2]),
     amount |-> Str(Cycle(<<"1000.00", "25999.90">>, i)),
     status |-> Str(c[1])]

InventoryItem(i, c) ==
    [itemId |-> Str("ITM-" \o ToString(4000 + i)),
     quantityOnHand |-> Num(c[1]),
     unitPrice |-> Str(Cycle(<<"45.12", "60.01", "249.50">>, i)),
     reorderLevel |-> Num(c[2])]

\* the collections a constructor call can return
initSalesOrders ==
    {[i \in 1..NumSalesOrders |-> SalesOrder(i, pick[i])] :
        pick \in [1..NumSalesOrders -> SalesOrderChoices]}

initWorkOrders ==
    {[i \in 1..NumWorkOrders |-> WorkOrder(i, pick[i])] :
        pick \in [1..NumWorkOrders -> WorkOrderChoices]}

initInvoices ==
    {[i \in 1..NumInvoices |-> Invoice(i, pick[i])] :
        pick \in [1..NumInvoices -> InvoiceChoices]}

initInventoryItems ==
    {[i \in 1..NumInventoryItems |-> InventoryItem(i, pick[i])] :
        pick \in [1..NumInventoryItems -> InventoryChoices]}

\* one collection of each kind, held by the tables that are not being varied
SampleSalesOrders ==
    [i \in 1..NumSalesOrders |->
        SalesOrder(i, Cycle(<<<<"pending", MakeDay(2024, 3, 20)>>, <<"completed", MakeDay(2024, 2, 29)>>>>, i))]

SampleWorkOrders ==
    [i \in 1..NumWorkOrders |->
        WorkOrder(i, Cycle(<<<<"in-progress", MakeDay(2024, 6, 20)>>, <<"delayed", MakeDay(2024, 3, 1)>>,
                             <<"completed", MakeDay(2024, 3, 1)>>>>, i))]

SampleInvoices ==
    [i \in 1..NumInvoices |->
        Invoice(i, Cycle(<<<<"paid", <<MakeDay(2024, 5, 1), 60>>>>, <<"pending", <<MakeDay(2024, 4, 1), 30>>>>>>, i))]

SampleInventoryItems ==
    [i \in 1..NumInventoryItems |-> InventoryItem(i, Cycle(<<<<80, 50>>, <<10, 60>>>>, i))]

(***************************************************************************)
(* executeSqlQuery                                                         *)
(***************************************************************************)
OnlySelectMessage == "Only SELECT queries are supported"
NoTableMessage ==
    "No valid table found in query. Supported tables: sales_orders, work_orders, invoices, inventory_items"

Idle == [kind |-> "idle", rows |-> <<>>, message |-> ""]
Returned(rows) == [kind |-> "returned", rows |-> rows, message |-> ""]
Thrown(message) == [kind |-> "thrown", rows |-> <<>>, message |-> message]
NoCall == [sql |-> "", at |-> 0]

\* the chain without its last branch: inventory_items is never found
tableName_threeTables(lowerSql) ==
    LET named == {t \in 1..3 : includes(lowerSql, TableNames[t])} IN
    IF named = {} THEN ""
    ELSE TableNames[CHOOSE t \in named : \A u \in named : t <= u]

\* four ifs without else: the last table named in the chain wins
tableName_lastWins(lowerSql) ==
    LET named == {t \in 1..Len(TableNames) : includes(lowerSql, TableNames[t])} IN
    IF named = {} THEN ""
    ELSE TableNames[CHOOSE t \in named : \A u \in named : t >= u]

\* the if / else-if chain over lowerSql.includes(...): the first table of
\* TableNames whose name the text contains, "" when it contains none
tableName(lowerSql) ==
    LET named == {t \in 1..Len(TableNames) : includes(lowerSql, TableNames[t])} IN
    IF named = {} THEN ""
    ELSE TableNames[CHOOSE t \in named : \A u \in named : t <= u]

SelectedTable == [s \in SqlStrings |-> tableName(LowerSql[s])]

\* the collection of the store after data.sort has sorted the array `sorted`
AfterSort(table, sorted) == IF sorted.ref = table THEN sorted.rows ELSE Collection(table)

\* the end of the try block: the store holds what data.sort left in it and
\* the caller gets the limited rows
return(sorted, sql) ==
    /\ outcome' = Returned(applyLimit(sorted, sql).rows)
    /\ salesOrders' = AfterSort("sales_orders", sorted)
    /\ workOrders' = AfterSort("work_orders", sorted)
    /\ invoices' = AfterSort("invoices", sorted)
    /\ inventoryItems' = AfterSort("inventory_items", sorted)

throw(message) ==
    /\ outcome' = Thrown(message)
    /\ UNCHANGED <<salesOrders, workOrders, invoices, inventoryItems>>

\* the table is looked up before the statement is checked
run_tableFirst(sql, lowerSql, table) ==
    IF table = "" THEN throw(NoTableMessage)
    ELSE IF ~startsWith(lowerSql, "select") THEN throw(OnlySelectMessage)
    ELSE return(applyOrderBy(applyWhereConditions(SpreadCopy(table), sql), sql), sql)

\* the rows are limited before they are sorted
run_limitFirst(sql, lowerSql, table) ==
    IF ~startsWith(lowerSql, "select") THEN throw(OnlySelectMessage)
    ELSE IF table = "" THEN throw(NoTableMessage)
    ELSE return(applyOrderBy(applyLimit(applyWhereConditions(SpreadCopy(table), sql), sql), sql), sql)

\* the statement is checked as it was written, capitals only
run_caseSensitive(sql, lowerSql, table) ==
    IF ~startsWith(trim(sql), "SELECT") THEN throw(OnlySelectMessage)
    ELSE IF table = "" THEN throw(NoTableMessage)
    ELSE return(applyOrderBy(applyWhereConditions(SpreadCopy(table), sql), sql), sql)

run(sql, lowerSql, table) ==
    IF ~startsWith(lowerSql, "select") THEN throw(OnlySelectMessage)
    ELSE IF table = "" THEN throw(NoTableMessage)
    ELSE return(applyOrderBy(applyWhereConditions(SpreadCopy(table), sql), sql), sql)

executeSqlQuery(sql) ==
    /\ outcome = Idle
    /\ call' = [sql |-> sql, at |-> now]
    /\ run(sql, LowerSql[sql], SelectedTable[sql])
    /\ UNCHANGED <<now, token, resolved>>

\* the caller's await takes the result or the error
ResultDelivered ==
    /\ outcome # Idle
    /\ outcome' = Idle
    /\ call' = NoCall
    /\ UNCHANGED <<salesOrders, workOrders, invoices, inventoryItems, now, results, queries, tasks,
                   token, resolved>>

\* time passes
ClockAdvance ==
    /\ \E t \in NowValues : t > now /\ now' = t
    /\ UNCHANGED <<salesOrders, workOrders, invoices, inventoryItems, call, outcome, results,
                   queries, tasks, token, resolved>>

\* the state after new MemStorage(): one collection ranges over what its
\* initializer can return while the other three hold their sample
Init ==
    /\ \E varied \in 1..Len(TableNames) :
         /\ salesOrders \in (IF varied = 1 THEN initSalesOrders ELSE {SampleSalesOrders})
         /\ workOrders \in (IF varied = 2 THEN initWorkOrders ELSE {SampleWorkOrders})
         /\ invoices \in (IF varied = 3 THEN initInvoices ELSE {SampleInvoices})
         /\ inventoryItems \in (IF varied = 4 THEN initInventoryItems ELSE {SampleInventoryItems})
    /\ now \in NowValues
    /\ call = NoCall
    /\ outcome = Idle
    /\ results = <<>>
    /\ queries = <<>>
    /\ tasks = <<>>
    /\ token = ""
    /\ resolved = <<>>

Execute ==
    /\ \E sql \in SqlStrings : executeSqlQuery(sql)
    /\ UNCHANGED <<results, queries, tasks>>

Next == Execute \/ ResultDelivered \/ ClockAdvance

Spec == Init /\ [][Next]_vars

(***************************************************************************)
(* Repeated calls: a caller keeps some of the results it gets and calls    *)
(* again, on work orders with and without a completion date.               *)
(***************************************************************************)
MaxKept == 2

RepeatSqls ==
    {SelectFrom("work_orders"), LimitTwoSql, CompletionDescSql,
     "SELECT * FROM work_orders ORDER BY scheduled_date", DelayedHighPastSql}

RepeatChoices == {<<"completed", MakeDay(2024, 3, 1)>>, <<"delayed", MakeDay(2024, 6, 20)>>}

RepeatInit ==
    /\ salesOrders = SampleSalesOrders
    /\ workOrders \in {[i \in 1..NumWorkOrders |-> WorkOrder(i, pick[i])] :
                           pick \in [1..NumWorkOrders -> RepeatChoices]}
    /\ invoices = SampleInvoices
    /\ inventoryItems = SampleInventoryItems
    /\ now \in NowValues
    /\ call = NoCall
    /\ outcome = Idle
    /\ results = <<>>
    /\ queries = <<>>
    /\ tasks = <<>>
    /\ token = ""
    /\ resolved = <<>>

RepeatExecute ==
    /\ \E sql \in RepeatSqls : executeSqlQuery(sql)
    /\ UNCHANGED <<results, queries, tasks>>

\* the caller's await takes the records and the caller keeps them
ResultKept ==
    /\ outcome.kind = "returned"
    /\ Len(results) < MaxKept
    /\ results' = Append(results, [sql |-> call.sql, at |-> call.at, rows |-> outcome.rows])
    /\ outcome' = Idle
    /\ call' = NoCall
    /\ UNCHANGED <<salesOrders, workOrders, invoices, inventoryItems, now, queries, tasks,
                   token, resolved>>

RepeatNext == RepeatExecute \/ ResultKept \/ ResultDelivered \/ ClockAdvance

RepeatSpec == RepeatInit /\ [][RepeatNext]_vars

(***************************************************************************)
(* mapColumnName on its own: a token is resolved, and what came out is     *)
(* resolved again.                                                         *)
(***************************************************************************)
MaxApplied == 2

\* the tokens of the mapping in small and capital letters, the names it
\* maps to, columns it does not know and names every object inherits
ColumnTokens ==
    DOMAIN mapping \cup {toUpperCase(key) : key \in DOMAIN mapping}
    \cup {mapping[key] : key \in DOMAIN mapping}
    \cup {"status", "STATUS", "priority", "region", "amount", "x", "toString", "valueOf",
          "constructor", "Constructor", "__proto__"}

\* sqlColumn.toLowerCase is not a function
TypeError == [type |-> "TypeError", v |-> "sqlColumn.toLowerCase is not a function"]

\* mapColumnName called with a value
mapColumnNameOf(val) == IF val.type = "string" THEN mapColumnName(val.v) ELSE TypeError

ColumnInit ==
    /\ salesOrders = SampleSalesOrders
    /\ workOrders = SampleWorkOrders
    /\ invoices = SampleInvoices
    /\ inventoryItems = SampleInventoryItems
    /\ now \in NowValues
    /\ call = NoCall
    /\ outcome = Idle
    /\ results = <<>>
    /\ queries = <<>>
    /\ tasks = <<>>
    /\ token \in ColumnTokens
    /\ resolved = <<>>

Resolve ==
    /\ Len(resolved) < MaxApplied
    /\ resolved' = Append(resolved, IF resolved = <<>> THEN mapColumnName(token)
                                    ELSE mapColumnNameOf(resolved[Len(resolved)]))
    /\ UNCHANGED <<salesOrders, workOrders, invoices, inventoryItems, now, call, outcome, results,
                   queries, tasks, token>>

ColumnNext == Resolve

ColumnSpec == ColumnInit /\ [][ColumnNext]_vars

(***************************************************************************)
(* POST /api/queries and processQueryAsync.  A query is named by its place *)
(* in the map (randomUUID never repeats); tasks[id] is the call of         *)
(* processQueryAsync for it, pc naming the call whose promise it awaits.   *)
(***************************************************************************)
MaxQueries == 2

\* what users ask
Questions == {"overdue invoices"}

\* texts generateSQLWithContext returns: trimmed and beginning with SELECT
GeneratedSqls ==
    {StatusSql("work_orders", "delayed"), SelectFrom("invoices"), "SELECT * FROM nonexistent_table"}

\* the messages of the errors the catch of generateSQLWithContext gets: from
\* the request to the language model and from the validation of its answer
ModelErrors ==
    {"Request timed out.", "Generated query must be a SELECT statement",
     "429 You exceeded your current quota"}

\* every caught error is taken for a rate limit error
usesFallback_always(message) == TRUE

\* error.message.includes('429') || error.message.includes('quota')
usesFallback(message) == includes(message, "429") \/ includes(message, "quota")

\* the message of the error generateSQLWithContext throws
rethrown(message) == "AI processing failed: " \o message

\* the identifier of a record: its first field in the four schemas
IdOf(row) ==
    CASE "orderId" \in DOMAIN row -> row.orderId.v
      [] "workOrderId" \in DOMAIN row -> row.workOrderId.v
      [] "invoiceId" \in DOMAIN row -> row.invoiceId.v
      [] "itemId" \in DOMAIN row -> row.itemId.v

\* JSON.stringify(resultData), each object of the array shortened to its
\* identifier
RECURSIVE Members(_)
Members(rows) ==
    IF rows = <<>> THEN ""
    ELSE IF Len(rows) = 1 THEN IdOf(rows[1])
    ELSE IdOf(rows[1]) \o "," \o Members(Tail(rows))

stringify(rows) == Str("[" \o Members(rows) \o "]")

\* the record createQuery stores
createQuery(userQuestion, at) ==
    [userQuestion |-> Str(userQuestion),
     generatedSql |-> null,
     aiInterpretation |-> null,
     resultData |-> null,
     status |-> Str("processing"),
     errorMessage |-> null,
     executionTimeMs |-> null,
     createdAt |-> DateOf(at)]

\* { ...query, ...updates }
Spread(query, updates) ==
    [f \in DOMAIN query \cup DOMAIN updates |-> IF f \in DOMAIN updates THEN updates[f] ELSE query[f]]

\* the record created last is the one updated
updateQuery_latest(id, updates) ==
    IF id \notin DOMAIN queries THEN queries
    ELSE [queries EXCEPT ![Len(queries)] = Spread(@, updates)]

\* the map after updateQuery(id, updates)
updateQuery(id, updates) ==
    IF id \notin DOMAIN queries THEN queries
    ELSE [queries EXCEPT ![id] = Spread(@, updates)]

\* the message of the error is dropped
errorMessageOf_generic(result) ==
    IF result.kind = "thrown" THEN Str("Failed to execute query") ELSE null

\* errorMessage after the inner try of processQueryAsync
errorMessageOf(result) ==
    IF result.kind = "thrown" THEN Str("Failed to execute query: " \o result.message) ELSE null

\* errorMessage ? "error" : "completed"
statusOf_completed(errorMessage) ==
    IF Truthy(errorMessage) THEN Str("error") ELSE Str("completed")

\* errorMessage ? "error" : "success"
statusOf(errorMessage) == IF Truthy(errorMessage) THEN Str("error") ELSE Str("success")

\* a call of processQueryAsync at its first await; cause, fallback and
\* failure keep what happened to it: the message of the error caught in
\* generateSQLWithContext, whether the fallback generator was used, the
\* message of the error processQueryAsync caught
Started(userQuestion, at) ==
    [pc |-> "getRecentQueries", userQuestion |-> userQuestion, startTime |-> at, sql |-> "",
     cause |-> "", fallback |-> FALSE, failure |-> ""]

\* the body of app.post("/api/queries"): the record is created and
\* answered, and processQueryAsync runs up to its first await
post(userQuestion) ==
    /\ queries' = Append(queries, createQuery(userQuestion, now))
    /\ tasks' = Append(tasks, Started(userQuestion, now))
    /\ UNCHANGED <<salesOrders, workOrders, invoices, inventoryItems, now, call, outcome, results,
                   token, resolved>>

Submit ==
    /\ Len(queries) < MaxQueries
    /\ \E userQuestion \in Questions : post(userQuestion)

\* the recent queries have arrived; generateSQLWithContext is called
RecentQueriesRead(id) ==
    /\ tasks[id].pc = "getRecentQueries"
    /\ tasks' = [tasks EXCEPT ![id].pc = "generateSQLWithContext"]
    /\ UNCHANGED <<salesOrders, workOrders, invoices, inventoryItems, now, call, outcome, results,
                   queries, token, resolved>>

\* generateSQLWithContext has returned the text of the language model;
\* executeSqlQuery is called
SqlGenerated(id) ==
    /\ tasks[id].pc = "generateSQLWithContext"
    /\ \E sql \in GeneratedSqls :
         /\ executeSqlQuery(sql)
         /\ tasks' = [tasks EXCEPT ![id].pc = "executeSqlQuery", ![id].sql = sql]
    /\ UNCHANGED <<results, queries>>

\* generateSQLWithContext has caught a rate limit error and returned the
\* text of generateFallbackSQL; executeSqlQuery is called
FallbackGenerated(id) ==
    /\ tasks[id].pc = "generateSQLWithContext"
    /\ \E message \in ModelErrors :
         /\ usesFallback(message)
         /\ executeSqlQuery(generateFallbackSQL(tasks[id].userQuestion))
         /\ tasks' = [tasks EXCEPT ![id].pc = "executeSqlQuery",
                                   ![id].sql = generateFallbackSQL(tasks[id].userQuestion),
                                   ![id].cause = message,
                                   ![id].fallback = TRUE]
    /\ UNCHANGED <<results, queries>>

\* no outer catch: the rejection ends the task and the record stays
GenerationFailed_unhandled(id) ==
    /\ tasks[id].pc = "generateSQLWithContext"
    /\ \E message \in ModelErrors :
         /\ ~usesFallback(message)
         /\ tasks' = [tasks EXCEPT ![id].pc = "done",
                                   ![id].cause = message,
                                   ![id].failure = rethrown(message)]
    /\ UNCHANGED <<salesOrders, workOrders, invoices, inventoryItems, now, call, outcome, results,
                   queries, token, resolved>>

\* generateSQLWithContext has caught another error and thrown: the outer
\* catch updates the record
GenerationFailed(id) ==
    /\ tasks[id].pc = "generateSQLWithContext"
    /\ \E message \in ModelErrors :
         /\ ~usesFallback(message)
         /\ queries' = updateQuery(id, [status |-> Str("error"),
                                        errorMessage |-> Str(rethrown(message)),
                                        executionTimeMs |-> Num(now - tasks[id].startTime)])
         /\ tasks' = [tasks EXCEPT ![id].pc = "done",
                                   ![id].cause = message,
                                   ![id].failure = rethrown(message)]
    /\ UNCHANGED <<salesOrders, workOrders, invoices, inventoryItems, now, call, outcome, results,
                   token, resolved>>

\* the records are stored whether the execution failed or not
updates_keepsRows(sql, result, errorMessage, executionTimeMs) ==
    [generatedSql |-> Str(sql),
     aiInterpretation |-> Str("Generated SQL query based on your question"),
     resultData |-> stringify(result.rows),
     status |-> statusOf(errorMessage),
     errorMessage |-> errorMessage,
     executionTimeMs |-> Num(executionTimeMs)]

\* the fields of the update after the inner try
updates(sql, result, errorMessage, executionTimeMs) ==
    [generatedSql |-> Str(sql),
     aiInterpretation |-> Str("Generated SQL query based on your question"),
     resultData |-> IF Truthy(errorMessage) THEN null ELSE stringify(result.rows),
     status |-> statusOf(errorMessage),
     errorMessage |-> errorMessage,
     executionTimeMs |-> Num(executionTimeMs)]

\* executeSqlQuery has returned or thrown: the record is updated
QueryUpdated(id) ==
    /\ tasks[id].pc = "executeSqlQuery"
    /\ outcome # Idle
    /\ queries' = updateQuery(id, updates(tasks[id].sql, outcome, errorMessageOf(outcome),
                                          now - tasks[id].startTime))
    /\ tasks' = [tasks EXCEPT ![id].pc = "done", ![id].failure = outcome.message]
    /\ outcome' = Idle
    /\ call' = NoCall
    /\ UNCHANGED <<salesOrders, workOrders, invoices, inventoryItems, now, results,
                   token, resolved>>

\* a step of processQueryAsync(id, ...)
processQueryAsync(id) ==
    /\ id \in DOMAIN tasks
    /\ \/ RecentQueriesRead(id)
       \/ SqlGenerated(id)
       \/ FallbackGenerated(id)
       \/ GenerationFailed(id)
       \/ QueryUpdated(id)

QueryInit ==
    /\ salesOrders = SampleSalesOrders
    /\ workOrders = SampleWorkOrders
    /\ invoices = SampleInvoices
    /\ inventoryItems = SampleInventoryItems
    /\ now \in NowValues
    /\ call = NoCall
    /\ outcome = Idle
    /\ results = <<>>
    /\ queries = <<>>
    /\ tasks = <<>>
    /\ token = ""
    /\ resolved = <<>>

TaskStep == \E id \in DOMAIN tasks : processQueryAsync(id)

QueryNext == Submit \/ TaskStep \/ ClockAdvance

QuerySpec == QueryInit /\ [][QueryNext]_vars

(***************************************************************************)
(* One question of any kind, for the answers of the fallback generator.    *)
(***************************************************************************)
MaxAsked == 1

FallbackQuestions ==
    {"Pending sales orders", "pending work and sales", "delayed work orders",
     "Which invoices are overdue?", "LOW INVENTORY", "sales by region", "work in progress",
     "invoice totals", "inventory value", "hello"}

Ask ==
    /\ Len(queries) < MaxAsked
    /\ \E userQuestion \in FallbackQuestions : post(userQuestion)

FallbackNext == Ask \/ TaskStep \/ ClockAdvance

FallbackSpec == QueryInit /\ [][FallbackNext]_vars

\* the event loop runs the continuation of every settled promise, and the
\* request to the language model returns or throws
FairQuerySpec == QuerySpec /\ \A id \in 1..MaxQueries : WF_vars(processQueryAsync(id))

(***************************************************************************)
(* Properties.  A call that has returned is read off call and outcome; the *)
(* clock the call read is call.at.                                         *)
(***************************************************************************)
ReturnedFor(sql) == outcome.kind = "returned" /\ call.sql = sql

\* the lower-cased texts, and whether trimmed they begin with select
Lowered == [s \in SqlStrings |-> toLowerCase(s)]

BeginsWithSelect == [s \in SqlStrings |-> startsWith(trim(Lowered[s]), "select")]

\* the tables a text names, by their place in TableNames
Named == [s \in SqlStrings |-> {t \in 1..Len(TableNames) : includes(Lowered[s], TableNames[t])}]

Occurrences(rows, row) == Cardinality({i \in DOMAIN rows : rows[i] = row})

\* the same records, each as often, in any order
SameRecords(a, b) ==
    /\ Len(a) = Len(b)
    /\ \A i \in DOMAIN a : Occurrences(a, a[i]) = Occurrences(b, a[i])

\* status 'delayed', or status 'in-progress' with a scheduled date before `at`
DelayedOrOverdue(row, at) ==
    \/ row.status = Str("delayed")
    \/ row.status = Str("in-progress") /\ row.scheduledDate.v < at

DelayedOrOverdueOrders(at) ==
    LET Test(row) == DelayedOrOverdue(row, at) IN SelectSeq(workOrders, Test)

\* C1: on work orders, the query whose WHERE clause is
\* status = 'delayed' OR (status = 'in-progress' AND scheduled_date < GETDATE())
\* returns exactly the records that are delayed, or in progress with a
\* scheduled date strictly before now; with ORDER BY scheduled_date ASC
\* LIMIT 20 it returns them oldest scheduled date first.
C1_DelayedOrOverdueReturned ==
    /\ ReturnedFor(DelayedSql) =>
         SameRecords(outcome.rows, DelayedOrOverdueOrders(call.at))
    /\ ReturnedFor(DelayedSqlOrdered) =>
         /\ SameRecords(outcome.rows, DelayedOrOverdueOrders(call.at))
         /\ \A i, j \in DOMAIN outcome.rows :
              i < j => outcome.rows[i].scheduledDate.v <= outcome.rows[j].scheduledDate.v

\* the records of a table that carry the status v
WithStatus(table, v) ==
    LET Test(row) == Get(row, "status") = Str(v) IN SelectSeq(Collection(table), Test)

\* C2: for every value v of the status enums, the query whose WHERE clause is
\* status = 'v' returns exactly the records whose status equals v: every
\* returned record has status v and no record with status v is left out.
C2_StatusEqualityExact ==
    \A t \in 1..3 : \A v \in StatusValues :
        ReturnedFor(StatusSql(TableNames[t], v)) =>
            outcome.rows = WithStatus(TableNames[t], v)

\* C3: executeSqlQuery fails with 'Only SELECT queries are supported' exactly
\* when the trimmed, lower-cased input does not begin with 'select', also
\* when the input names a known table, and then returns no records.
C3_OnlySelect ==
    outcome # Idle =>
        /\ (outcome.kind = "thrown" /\ outcome.message = OnlySelectMessage)
              <=> ~BeginsWithSelect[call.sql]
        /\ ~BeginsWithSelect[call.sql] => outcome.rows = <<>>

\* a statement that is no SELECT and names a known table has failed
C3_Witness ==
    /\ call.sql = "DELETE FROM sales_orders"
    /\ outcome = Thrown(OnlySelectMessage)

MessageListsTables == \A t \in 1..Len(TableNames) : includes(NoTableMessage, TableNames[t])

\* C4: for a string that begins with SELECT, executeSqlQuery fails with the
\* error whose message lists the four supported tables if and only if the
\* lower-cased string contains none of the four table names.
C4_UnknownTable ==
    /\ MessageListsTables
    /\ (outcome # Idle /\ BeginsWithSelect[call.sql]) =>
         ((outcome.kind = "thrown" /\ outcome.message = NoTableMessage)
             <=> Named[call.sql] = {})

\* both sides happen: a SELECT naming no table has failed, or one naming
\* inventory_items in capitals has returned
C4_Witness ==
    \/ call.sql = "SELECT * FROM nonexistent_table" /\ outcome = Thrown(NoTableMessage)
    \/ ReturnedFor("select * from INVENTORY_ITEMS") /\ outcome.rows # <<>>

\* the first table, in the order of TableNames, that the text names
FirstNamed(sql) == TableNames[CHOOSE t \in Named[sql] : \A u \in Named[sql] : t <= u]

\* the texts without WHERE, LIMIT or TOP
PlainSqls ==
    {s \in SqlStrings : \A word \in {"where", "limit", "top"} : ~includes(Lowered[s], word)}

\* C5: when a SELECT string names more than one table, the records queried
\* are those of the first table in the order sales_orders, work_orders,
\* invoices, inventory_items, wherever the names stand in the string.
C5_FirstTableWins ==
    (outcome.kind = "returned" /\ Cardinality(Named[call.sql]) > 1) =>
        /\ \A i \in DOMAIN outcome.rows :
             \E j \in DOMAIN Collection(FirstNamed(call.sql)) :
                outcome.rows[i] = Collection(FirstNamed(call.sql))[j]
        /\ call.sql \in PlainSqls =>
             SameRecords(outcome.rows, Collection(FirstNamed(call.sql)))

\* a text naming invoices before sales_orders has returned the sales orders
C5_Witness ==
    /\ ReturnedFor("SELECT * FROM invoices JOIN sales_orders ON 1 = 1")
    /\ outcome.rows = salesOrders
    /\ outcome.rows # <<>>

\* C6: for each of the four tables, SELECT * FROM <table> returns exactly the
\* collection of that table: every stored record once, none missing, none added.
C6_FullCollection ==
    \A t \in 1..Len(TableNames) :
        ReturnedFor(SelectFrom(TableNames[t])) =>
            SameRecords(outcome.rows, Collection(TableNames[t]))

C6_Witness ==
    /\ ReturnedFor(SelectFrom("inventory_items"))
    /\ Len(outcome.rows) = NumInventoryItems

\* C7: no call of executeSqlQuery, successful or failing, changes the four
\* collections of the store: they hold the same records in the same order
\* as at construction.
C7_StoreNeverChanges ==
    [][UNCHANGED <<salesOrders, workOrders, invoices, inventoryItems>>]_vars

\* a call without WHERE has returned the sales orders in another order than
\* the store holds them
C7_Witness ==
    /\ ReturnedFor("SELECT * FROM sales_orders ORDER BY order_date DESC")
    /\ outcome.rows # salesOrders
    /\ SameRecords(outcome.rows, salesOrders)

\* the table and the field a comparison with the current date is about
BeforeNowTable(sql) ==
    IF includes(Lowered[sql], "due_date") THEN "invoices" ELSE "work_orders"

BeforeNowField(sql) ==
    IF includes(Lowered[sql], "due_date") THEN "dueDate" ELSE "scheduledDate"

\* the texts whose WHERE clause contains the comparison
BeforeNowQueries == BeforeNowSqls \cup {DelayedSql, DelayedSqlOrdered}

\* the texts whose whole WHERE clause is the comparison
BeforeNowAloneSqls ==
    {s \in BeforeNowSqls : ~includes(Lowered[s], " and ")}

OnlyBeforeNow(sql) ==
    \A i \in DOMAIN outcome.rows : outcome.rows[i][BeforeNowField(sql)].v < call.at

EveryBeforeNow(sql) ==
    \A j \in DOMAIN Collection(BeforeNowTable(sql)) :
        Collection(BeforeNowTable(sql))[j][BeforeNowField(sql)].v < call.at =>
            \E i \in DOMAIN outcome.rows : outcome.rows[i] = Collection(BeforeNowTable(sql))[j]

AtOrBelowReorderLevel ==
    LET Test(row) == row.quantityOnHand.v <= row.reorderLevel.v
    IN  SelectSeq(inventoryItems, Test)

\* C9: the query whose WHERE clause is quantity_on_hand <= reorder_level
\* returns exactly the records with quantityOnHand <= reorderLevel, a
\* quantity of 0 included; of an item with quantity below its level and
\* one above it returns only the first.
C9_LowInventoryExact ==
    ReturnedFor(LowInventorySql) => outcome.rows = AtOrBelowReorderLevel

\* an item with quantity 0 is returned and an item above its level is not
C9_Witness ==
    /\ ReturnedFor(LowInventorySql)
    /\ \E i \in DOMAIN outcome.rows : outcome.rows[i].quantityOnHand.v = 0
    /\ \E j \in DOMAIN inventoryItems :
         inventoryItems[j].quantityOnHand.v > inventoryItems[j].reorderLevel.v
    /\ Len(outcome.rows) < Len(inventoryItems)

\* the last day of a month
DaysInMonth(year, month) == MakeDay(IF month = 12 THEN year + 1 ELSE year, (month % 12) + 1, 1) - MakeDay(year, month, 1)

\* DATEADD(quarter, -1, t): the same day of the month three months earlier,
\* the last day of that month when it has no such day
QuarterBefore(t) ==
    LET f == Fields(t)
        months == f.year * 12 + f.month - 3
        year == months \div 12
        month == (months % 12) + 1
        last == DaysInMonth(year, month)
    IN  MakeDay(year, month, IF f.date > last THEN last ELSE f.date)

SinceQuarterBefore(at) ==
    LET Test(row) == row.orderDate.v >= QuarterBefore(at) IN SelectSeq(salesOrders, Test)

\* C10: a query whose WHERE clause contains order_date >= DATEADD(quarter, -1, ...)
\* returns exactly the records whose orderDate is not earlier than the
\* evaluation time minus 3 months: none dated before it, all dated at or
\* after it.
C10_LastQuarterExact ==
    ReturnedFor(LastQuarterSql) => outcome.rows = SinceQuarterBefore(call.at)

PendingOverdueInvoices(at) ==
    LET Test(row) == row.status = Str("pending") /\ row.dueDate.v < at
    IN  SelectSeq(invoices, Test)

PendingNorthOrders ==
    LET Test(row) == row.status = Str("pending") /\ row.region = Str("North")
    IN  SelectSeq(salesOrders, Test)

DelayedHighPastOrders(at) ==
    LET Test(row) ==
            /\ row.status = Str("delayed")
            /\ row.priority = Str("high")
            /\ row.scheduledDate.v < at
    IN  SelectSeq(workOrders, Test)

\* a sales order has no priority, so none has the priority 'high'
CompletedSouthHighOrders ==
    LET Test(row) ==
            /\ row.status = Str("completed")
            /\ row.region = Str("South")
            /\ Get(row, "priority") = Str("high")
    IN  SelectSeq(salesOrders, Test)

\* C11: when the WHERE clause holds several recognized conditions (status
\* with a date comparison, status with region, status with priority and a
\* date comparison, status with region and priority) the result is exactly
\* the records that satisfy every one of them.
C11_EveryMatchedPattern ==
    /\ ReturnedFor(PendingOverdueSql) => outcome.rows = PendingOverdueInvoices(call.at)
    /\ ReturnedFor(PendingNorthSql) => outcome.rows = PendingNorthOrders
    /\ ReturnedFor(DelayedHighPastSql) => outcome.rows = DelayedHighPastOrders(call.at)
    /\ ReturnedFor(CompletedSouthHighSql) => outcome.rows = CompletedSouthHighOrders

\* a pending invoice is left out for its due date alone: it is not yet due
C11_Witness ==
    /\ ReturnedFor(PendingOverdueSql)
    /\ outcome.rows # <<>>
    /\ \E j \in DOMAIN invoices :
         invoices[j].status = Str("pending") /\ invoices[j].dueDate.v >= call.at

\* C12: WHERE text that matches no recognized pattern is ignored without
\* error: a query with only such a condition returns every record of the
\* table, and such a condition next to status = 'pending' leaves the result
\* of the status condition as it is.
C12_UnrecognizedIgnored ==
    /\ ReturnedFor(AcmeSql) => outcome.rows = salesOrders
    /\ \A s \in {AcmePendingSql, LaptopPendingSql} :
         /\ call.sql = s => outcome.kind # "thrown"
         /\ ReturnedFor(s) => outcome.rows = WithStatus("sales_orders", "pending")

\* no record with a null in the column stands before one with a value
NullsAtEnd(rows, column) ==
    \A i, j \in DOMAIN rows :
        i < j /\ Get(rows[i], column) = null => Get(rows[j], column) = null

\* the dates of the column stand in the order the direction asks for
DatesInOrder(rows, column, dir) ==
    \A i, j \in DOMAIN rows :
        i < j /\ Get(rows[i], column) # null /\ Get(rows[j], column) # null =>
            IF dir = "DESC"
            THEN Get(rows[i], column).v >= Get(rows[j], column).v
            ELSE Get(rows[i], column).v <= Get(rows[j], column).v

\* C13: ORDER BY completion_date ASC or DESC on work orders, some of which
\* have no completion date: the result holds the records of the table, those
\* without a completion date after all those with one in both directions,
\* and those with one in ascending or descending order of the date.
C13_NullsLast ==
    /\ ReturnedFor(CompletionAscSql) =>
         /\ SameRecords(outcome.rows, workOrders)
         /\ NullsAtEnd(outcome.rows, "completionDate")
         /\ DatesInOrder(outcome.rows, "completionDate", "ASC")
    /\ ReturnedFor(CompletionDescSql) =>
         /\ SameRecords(outcome.rows, workOrders)
         /\ NullsAtEnd(outcome.rows, "completionDate")
         /\ DatesInOrder(outcome.rows, "completionDate", "DESC")

\* descending, the stored order starts with a record without a date and
\* holds two dates in ascending order behind it
C13_Witness ==
    /\ ReturnedFor(CompletionDescSql)
    /\ workOrders[1].completionDate = null
    /\ \E i, j \in DOMAIN workOrders :
         /\ i < j
         /\ workOrders[i].completionDate # null
         /\ workOrders[j].completionDate # null
         /\ workOrders[i].completionDate.v < workOrders[j].completionDate.v

\* the price of an item in hundredths, read as a number
PriceOf(row) == parseFloat(row.unitPrice).v

\* C14: ORDER BY unit_price DESC on inventory items returns the items with
\* their unit prices, decimal strings read as numbers, in non-increasing
\* order (items without a price at the end).
C14_UnitPriceDescending ==
    ReturnedFor(UnitPriceDescSql) =>
        /\ SameRecords(outcome.rows, inventoryItems)
        /\ NullsAtEnd(outcome.rows, "unitPrice")
        /\ \A i, j \in DOMAIN outcome.rows :
             i < j /\ outcome.rows[i].unitPrice # null /\ outcome.rows[j].unitPrice # null =>
                 PriceOf(outcome.rows[i]) >= PriceOf(outcome.rows[j])

\* the first n elements of a sequence, all of it when it is shorter
FirstOf(seq, n) == SubSeq(seq, 1, IF Len(seq) < n THEN Len(seq) ELSE n)

LowInventoryLimitSql == LowInventorySql \o " ORDER BY quantity_on_hand ASC LIMIT 20"

LatestPendingSql == "SELECT * FROM invoices WHERE status = 'pending' ORDER BY due_date DESC LIMIT 1"

TopLowestSql == "SELECT TOP 1 * FROM inventory_items ORDER BY quantity_on_hand ASC"

\* C15: a query with LIMIT n returns at most n records, exactly n when the
\* filtered records are at least n, and they are the first n of the
\* filtered, sorted sequence: LIMIT 2 on the work orders gives the first
\* two, LIMIT 20 on fewer low-inventory items gives all of them, LIMIT 1 on
\* the pending invoices gives one when there is one.
C15_LimitFirstN ==
    /\ ReturnedFor(LimitTwoSql) => outcome.rows = FirstOf(workOrders, 2)
    /\ ReturnedFor(LowInventoryLimitSql) =>
         /\ Len(outcome.rows) <= 20
         /\ SameRecords(outcome.rows, AtOrBelowReorderLevel)
    /\ ReturnedFor(LatestPendingSql) =>
         /\ Len(outcome.rows) = Len(FirstOf(WithStatus("invoices", "pending"), 1))
         /\ \A i \in DOMAIN outcome.rows : outcome.rows[i].status = Str("pending")

\* LIMIT 2 cuts a longer collection down to two records
C15_Witness ==
    /\ ReturnedFor(LimitTwoSql)
    /\ Len(workOrders) > 2
    /\ Len(outcome.rows) = 2

\* C16: without LIMIT, SELECT TOP n returns the first n records of the
\* filtered, sorted sequence; with both TOP m and LIMIT n only LIMIT n is
\* applied.
C16_TopAndLimit ==
    /\ ReturnedFor(TopLowestSql) =>
         /\ Len(outcome.rows) = 1
         /\ \E j \in DOMAIN inventoryItems : outcome.rows[1] = inventoryItems[j]
         /\ \A j \in DOMAIN inventoryItems :
              outcome.rows[1].quantityOnHand.v <= inventoryItems[j].quantityOnHand.v
    /\ ReturnedFor(TopOverLimitSql) => outcome.rows = FirstOf(workOrders, 2)

\* TOP 1 and LIMIT 2 together give two records
C16_Witness ==
    /\ ReturnedFor(TopOverLimitSql)
    /\ Len(outcome.rows) = 2

\* C17: the stages run in the order filter, sort, limit: WHERE status =
\* 'pending' ORDER BY due_date DESC LIMIT 1 on the invoices returns the
\* pending invoice with the latest due date, and nothing when no invoice is
\* pending.
C17_FilterSortLimit ==
    ReturnedFor(LatestPendingSql) =>
        IF WithStatus("invoices", "pending") = <<>> THEN outcome.rows = <<>>
        ELSE /\ Len(outcome.rows) = 1
             /\ outcome.rows[1].status = Str("pending")
             /\ \E j \in DOMAIN invoices : outcome.rows[1] = invoices[j]
             /\ \A j \in DOMAIN invoices :
                  invoices[j].status = Str("pending") =>
                      outcome.rows[1].dueDate.v >= invoices[j].dueDate.v

\* the pending invoice returned is not the first pending one of the store:
\* cutting before sorting would have returned another
C17_Witness ==
    /\ ReturnedFor(LatestPendingSql)
    /\ Len(outcome.rows) = 1
    /\ \E i, j \in DOMAIN invoices :
         /\ i < j
         /\ invoices[i].status = Str("pending")
         /\ invoices[j].status = Str("pending")
         /\ invoices[i].dueDate.v < invoices[j].dueDate.v
         /\ outcome.rows[1] = invoices[j]

\* C18: a call of executeSqlQuery with the text of an earlier call, on the
\* same store and at the same current time, returns the same records in the
\* same order as the earlier call, whatever calls ran in between.
C18_SameCallSameRows ==
    \A i \in DOMAIN results :
        /\ outcome.kind = "returned"
        /\ results[i].sql = call.sql
        /\ results[i].at = call.at
        => outcome.rows = results[i].rows

\* the whole table is read a second time after a call that sorted it into
\* another order
C18_Witness ==
    /\ Len(results) = 2
    /\ ReturnedFor(SelectFrom("work_orders"))
    /\ results[1].sql = call.sql
    /\ results[1].at = call.at
    /\ results[2].sql = CompletionDescSql
    /\ results[2].rows # results[1].rows

\* the status of a record stays, or goes from processing to success or
\* error; a record that appears has the status processing
StatusStep ==
    \A id \in DOMAIN queries' :
        IF id \in DOMAIN queries
        THEN \/ queries'[id].status = queries[id].status
             \/ /\ queries[id].status = Str("processing")
                /\ queries'[id].status \in {Str("success"), Str("error")}
        ELSE queries'[id].status = Str("processing")

\* the record of a query has left the status processing
Settled(id) ==
    /\ id \in DOMAIN queries
    /\ queries[id].status \in {Str("success"), Str("error")}

\* C20: every query record is created with the status processing, and in
\* every run, whatever the number of questions and the interleaving of
\* their tasks, its status changes only from processing to success or from
\* processing to error; it does so once, and the status never changes again.
C20_StatusChangesOnce ==
    /\ [][StatusStep]_vars
    /\ \A id \in 1..MaxQueries :
         [](id \in DOMAIN queries => <>Settled(id))

\* two questions, one settled as an error while the other was still being
\* processed and then succeeded
C20_Witness ==
    /\ Len(queries) = 2
    /\ queries[1].status = Str("success")
    /\ queries[2].status = Str("error")
    /\ tasks[1].pc = "done"
    /\ tasks[2].pc = "done"

\* C21: a LIMIT clause whose value is not a non-negative integer makes
\* executeSqlQuery fail instead of returning records.
C21_MalformedLimitFails ==
    call.sql = LimitWordSql /\ outcome # Idle => outcome.kind = "thrown"

\* C22: mapColumnName maps each token of its table to the camelCase name,
\* whatever the case of the letters given, returns every other token
\* unchanged and never fails; applied to its own result it returns that
\* result.
C22_MapColumnName ==
    resolved # <<>> =>
        /\ resolved[1] = IF toLowerCase(token) \in DOMAIN mapping
                         THEN Str(mapping[toLowerCase(token)])
                         ELSE Str(token)
        /\ \A i \in 2..Len(resolved) : resolved[i] = resolved[1]

\* what the fallback generator answers to a question about overdue invoices
OverdueQuestionSql == generateFallbackSQL("Which invoices are overdue?")

\* C25: the fallback SQL for a question mentioning overdue and invoice,
\* when executed, returns only invoices that are pending and whose due date
\* is before the current time.
C25_FallbackOverdueInvoices ==
    ReturnedFor(OverdueQuestionSql) =>
        \A i \in DOMAIN outcome.rows :
            /\ outcome.rows[i].status = Str("pending")
            /\ outcome.rows[i].dueDate.v < call.at

\* a step of the task of id leaves the records of all other queries as they
\* are
OwnRecordOnly ==
    \A id \in DOMAIN tasks :
        processQueryAsync(id) =>
            \A other \in DOMAIN queries : other # id => queries'[other] = queries[other]

\* C23: with several questions in process, the task started for a query
\* writes only the record of that query, in every interleaving, and no
\* record is ever removed from the map.
C23_SingleWriter ==
    [][OwnRecordOnly /\ DOMAIN queries \subseteq DOMAIN queries']_vars

\* the second query is settled while the first, submitted before it, is
\* still in process and untouched
C23_Witness ==
    /\ Len(queries) = 2
    /\ tasks[1].pc = "generateSQLWithContext"
    /\ queries[1] = createQuery(tasks[1].userQuestion, tasks[1].startTime)
    /\ tasks[2].pc = "done"
    /\ queries[2].status # Str("processing")

\* C24: when the generation or the execution of the SQL has failed for a
\* question, its record ends with the status error, an error message that
\* carries the message of the failure, and no result data.
C24_FailureRecorded ==
    \A id \in DOMAIN tasks :
        tasks[id].pc = "done" /\ tasks[id].failure # "" =>
            /\ queries[id].status = Str("error")
            /\ queries[id].errorMessage.type = "string"
            /\ includes(queries[id].errorMessage.v, tasks[id].failure)
            /\ queries[id].resultData = null

\* one question failed in the execution (no table), the other in the
\* generation
C24_Witness ==
    /\ Len(tasks) = 2
    /\ tasks[1].pc = "done"
    /\ tasks[1].failure = NoTableMessage
    /\ tasks[2].pc = "done"
    /\ tasks[2].failure = rethrown("Request timed out.")

\* C26: in every reachable state, a record in the status processing has no
\* generated SQL, interpretation, result data, error message or execution
\* time; a record in the status success has generated SQL and result data
\* and no error message; a record in the status error has an error message
\* and no result data.
C26_RecordShape ==
    \A id \in DOMAIN queries :
        LET query == queries[id] IN
        /\ query.status \in {Str("processing"), Str("success"), Str("error")}
        /\ query.status = Str("processing") =>
             /\ query.generatedSql = null
             /\ query.aiInterpretation = null
             /\ query.resultData = null
             /\ query.errorMessage = null
             /\ query.executionTimeMs = null
        /\ query.status = Str("success") =>
             /\ query.generatedSql # null
             /\ query.resultData # null
             /\ query.errorMessage = null
        /\ query.status = Str("error") =>
             /\ query.errorMessage # null
             /\ query.resultData = null

\* a record of each of the two final kinds: a success, and an error of the
\* execution that has generated SQL but no result data
C26_Witness ==
    /\ Len(queries) = 2
    /\ queries[1].status = Str("success")
    /\ queries[2].status = Str("error")
    /\ queries[2].generatedSql # null

\* C27: every question accepted by POST /api/queries has its record leave
\* the status processing for success or error, given that the request to
\* the language model returns or throws; no interleaving with the tasks of
\* other queries keeps a record in processing for ever.
C27_EveryQuestionSettles ==
    \A id \in 1..MaxQueries : (id \in DOMAIN queries) ~> Settled(id)

\* both records are settled, the second one before the first
C27_Witness ==
    /\ Len(queries) = 2
    /\ tasks[1].pc = "executeSqlQuery"
    /\ queries[1].status = Str("processing")
    /\ Settled(2)

\* C30: every text generateFallbackSQL returns begins with SELECT and names
\* a table, so a question that went through the fallback ends with the
\* status success; the fallback is used only when the message of the error
\* contains 429 or quota, and any other failure of the generation ends the
\* record with the status error and without generated SQL.
C30_FallbackSucceeds ==
    \A id \in DOMAIN tasks :
        /\ tasks[id].fallback =>
             /\ includes(tasks[id].cause, "429") \/ includes(tasks[id].cause, "quota")
             /\ BeginsWithSelect[tasks[id].sql]
             /\ Named[tasks[id].sql] # {}
        /\ tasks[id].fallback /\ tasks[id].pc = "done" =>
             /\ queries[id].status = Str("success")
             /\ queries[id].generatedSql = Str(tasks[id].sql)
        /\ tasks[id].cause # "" /\ ~tasks[id].fallback /\ tasks[id].pc = "done" =>
             /\ queries[id].status = Str("error")
             /\ queries[id].generatedSql = null

\* the question about overdue invoices has gone through the fallback
C30_Witness ==
    /\ Len(tasks) = 1
    /\ tasks[1].pc = "done"
    /\ tasks[1].fallback
    /\ tasks[1].sql = OverdueInvoiceFallback
    /\ queries[1].status = Str("success")

\* C28: for every string that, trimmed and without regard to case, begins
\* with SELECT and that contains the name of a table, executeSqlQuery
\* returns a sequence and never fails: no step of the filter, the sort or
\* the limit raises on the records the store holds.
C28_SelectOnTableReturns ==
    \A s \in SqlStrings :
        (BeginsWithSelect[s] /\ Named[s] # {} /\ call.sql = s /\ outcome # Idle) =>
            /\ outcome.kind = "returned"
            /\ outcome.message = ""
            /\ DOMAIN outcome.rows = 1..Len(outcome.rows)

\* a sort by a name every object inherits has returned the invoices
C28_Witness ==
    ReturnedFor(ProtoSql) /\ Len(outcome.rows) = Len(invoices) /\ outcome.rows # <<>>

\* C29: every result executeSqlQuery returns is a sub-collection of the
\* selected table: each returned record is a record of the collection of
\* that table, is returned at most as often as the collection holds it, and
\* the collection holds each of its records once, whatever WHERE, ORDER BY,
\* LIMIT or TOP the text carries.
C29_SubCollection ==
    outcome.kind = "returned" =>
        LET stored == Collection(FirstNamed(call.sql)) IN
        /\ \A i \in DOMAIN outcome.rows :
             /\ \E j \in DOMAIN stored : outcome.rows[i] = stored[j]
             /\ Occurrences(outcome.rows, outcome.rows[i]) = 1
        /\ \A j \in DOMAIN stored : Occurrences(stored, stored[j]) = 1
        /\ Len(outcome.rows) <= Len(stored)

\* a filtered, sorted and limited result that holds some but not all of
\* the records of its table
C29_Witness ==
    /\ outcome.kind = "returned"
    /\ includes(Lowered[call.sql], "where")
    /\ includes(Lowered[call.sql], "order by")
    /\ includes(Lowered[call.sql], "limit")
    /\ Len(outcome.rows) > 1
    /\ Len(outcome.rows) < Len(Collection(FirstNamed(call.sql)))

====
